---- MODULE Spec2Model ----
(***************************************************************************)
(* Traffic shaper: the shaping control plane (ts_core::TrafficShaper), the *)
(* timeline scheduler (simulation::Driver) and the session driver          *)
(* (simulation::Simulation::start), running against the host-wide pf /     *)
(* dummynet backend that the command wrappers of ts_core::commands drive.  *)
(*                                                                         *)
(* Two processes share the backend: "sim" runs one Simulation session      *)
(* (cli `simulation` command), "cli" runs the `start` and `stop` commands  *)
(* of the CLI, each a separate OS process that calls enable() or cleanup().*)
(* Every backend command is one atomic step; its success is decided by the *)
(* backend, so it is a nondeterministic input of the step.                 *)
(***************************************************************************)
EXTENDS Integers, Sequences, FiniteSets, TLC

\* ---------------------------------------------------------------- bounds
MaxEvents == 2        \* longest timeline explored
MaxOffset == 2        \* largest event offset (seconds after the epoch)
MaxEnableTime == 1    \* clock ticks that may elapse before the epoch is taken
MaxEarlyWakes == 1    \* spurious (early) wake-ups of the scheduler per session
MaxCliRuns == 2       \* `start` / `stop` commands run by the other process

\* ------------------------------------------------------------ constants
DEFAULT_PIPE_NUMBER == 1

Procs == {"sim", "cli"}

\* Result<(), E>: Ok(()) or the error of the command that failed.
OK == <<"ok", 0>>
None == <<"none", 0>>
Err(cmd, k) == <<cmd, k>>

\* ts_core::Protocol; the sessions explored all shape both protocols.
Protocol == {"Tcp", "Udp", "Both"}

\* Option<T>: None is <<>>, Some(x) is <<x>>.
Some(x) == <<x>>

\* The shaping parameters explored: two settings that differ in every field
\* and share no value between fields. packet_loss is a percentage (an f32 in
\* the source, whole numbers here).
Shapes == {[latency |-> 10, bandwidth |-> 1000, packet_loss |-> 0],
           [latency |-> 200, bandwidth |-> 50, packet_loss |-> 30]}

PlainShape == [latency |-> 10, bandwidth |-> 1000, packet_loss |-> 0]

\* models::Events: an offset from the epoch and the parameters to apply.
Events ==
    {[time |-> t, latency |-> q.latency, bandwidth |-> q.bandwidth,
      packet_loss |-> q.packet_loss] : t \in 0..MaxOffset, q \in Shapes}

RECURSIVE SeqsUpTo(_, _)
SeqsUpTo(S, n) ==
    IF n = 0 THEN {<<>>}
    ELSE LET shorter == SeqsUpTo(S, n - 1)
         IN  shorter \cup {Append(s, x) : s \in {t \in shorter : Len(t) = n - 1}, x \in S}

Timelines == SeqsUpTo(Events, MaxEvents)

\* The timelines all of whose events carry the same parameters.
PlainTimelines ==
    {tl \in Timelines :
        \A i \in DOMAIN tl :
            /\ tl[i].latency = PlainShape.latency
            /\ tl[i].bandwidth = PlainShape.bandwidth
            /\ tl[i].packet_loss = PlainShape.packet_loss}

\* models::Config of a manifest.
Config(pl, lat, bw, proto, src, dst, out) ==
    [packet_loss |-> pl, latency |-> lat, bandwidth |-> bw, protocol |-> proto,
     src_ports |-> src, dst_ports |-> dst, report_output |-> out]

\* A manifest that shapes everything and reports nothing.
DefaultConfig ==
    Config(PlainShape.packet_loss, PlainShape.latency, PlainShape.bandwidth,
           "Both", <<>>, <<>>, <<>>)

\* ts_core::PortRange
PortRange(pair) == [start |-> pair[1], end |-> pair[2]]

\* Option::map over the (start, end) pair of a manifest or of the cli.
MapPortRange(opt) == IF opt = <<>> THEN <<>> ELSE Some(PortRange(opt[1]))

\* impl Into<TrafficConfig> for Config: the fields are copied as they are.
ConfigInto(c) ==
    [packet_loss |-> c.packet_loss,
     latency |-> c.latency,
     max_bandwidth |-> c.bandwidth,
     protocol |-> c.protocol,
     src_ports |-> MapPortRange(c.src_ports),
     dst_ports |-> MapPortRange(c.dst_ports),
     report_output |-> IF c.report_output = <<>> THEN "None" ELSE c.report_output[1]]

\* The configuration inputs explored: packet_loss on both sides of each end
\* of the valid range, and port pairs absent, in order and reversed.
PacketLosses == {-1, 0, 100, 101}

PortPairs == {<<>>, Some(<<80, 8080>>), Some(<<8080, 80>>)}

\* The arguments of a TrafficConfig::new call.
Args(pl, lat, bw, proto, src, dst, out) ==
    [packet_loss |-> pl, latency |-> lat, max_bandwidth |-> bw, protocol |-> proto,
     src_ports |-> src, dst_ports |-> dst, output |-> out]

\* TrafficConfig::new: Err(InvalidPacketLoss(packet_loss)) unless
\* (0.0..=100.0) contains packet_loss, otherwise Ok of the arguments as given.
TrafficConfigNew(packet_loss, latency, max_bandwidth, protocol, src_ports, dst_ports, output) ==
    IF ~(0 <= packet_loss /\ packet_loss <= 100)
    THEN [tag |-> "InvalidPacketLoss", value |-> <<packet_loss>>]
    ELSE [tag |-> "Ok",
          value |-> <<[packet_loss |-> packet_loss,
                       latency |-> latency,
                       max_bandwidth |-> max_bandwidth,
                       protocol |-> protocol,
                       src_ports |-> src_ports,
                       dst_ports |-> dst_ports,
                       report_output |-> output]>>]

\* No TrafficConfig::new call made yet.
NoConfig == [tag |-> "none", value |-> <<>>]

\* The arguments of the cli's `stop` command: a dummy configuration.
StopArgs == Args(0, 0, 0, "Both", <<>>, <<>>, "None")

\* impl Into<ApplyConfig> for Events.
EventsInto(e) ==
    [packet_loss |-> e.packet_loss, latency |-> e.latency, max_bandwidth |-> e.bandwidth]

\* `packet_loss / 100.0`: the percentage as a ratio.
Ratio(pl) == [num |-> pl, den |-> 100]

\* DnctlCommands::configure_pipe: the parameters the pipe is given.
ConfigurePipe(bandwidth, delay, plr) == [bw |-> bandwidth, delay |-> delay, plr |-> plr]

\* Mutant of EventReportNew: bandwidth and latency change places.
EventReportSwapped(bandwidth, latency, packet_loss) ==
    [bandwidth |-> latency, latency |-> bandwidth, packet_loss |-> packet_loss]

\* EventReport::new; the `now` timestamp of the record is left out.
EventReportNew(bandwidth, latency, packet_loss) ==
    [bandwidth |-> bandwidth, latency |-> latency, packet_loss |-> packet_loss]

\* serde_json::to_string plus '\n': one line of the report. A write that
\* fails part-way leaves a prefix of the line, which is not a whole record.
Line(report, whole) ==
    [whole |-> whole, bandwidth |-> report.bandwidth, latency |-> report.latency,
     packet_loss |-> report.packet_loss]

VARIABLES
    events,         \* manifest.events of the simulation
    config,         \* manifest.config of the simulation
    cliArgs,        \* arguments of the cli's last TrafficConfig::new call
    cliConfig,      \* what that call returned
    now,            \* the wall clock (Instant::now())
    pc,             \* [Procs -> the command each process issues next]
    pfRefs,         \* pf: number of enable references (tokens) outstanding
    pfEnabled,      \* pf: packet filter enabled
    pipeExists,     \* dummynet: pipe DEFAULT_PIPE_NUMBER is configured
    pipeCfg,        \* dummynet: the parameters of the pipe, <<>> if none
    policy,         \* pf: the rule set loaded ("base", "anchor", "rules")
    pos,            \* Driver.pos
    epoch,          \* Simulation.epoch / Driver.epoch
    sleepDeadline,  \* deadline the Driver's Sleep is armed with
    earlyWakes,     \* wake-ups of the Driver before sleepDeadline, so far
    res,            \* result of start_inner()
    ret,            \* value Simulation::start returned (None: not yet)
    cleanupRes,     \* result of the cleanup() call made by Simulation::start
    held,           \* [Procs -> an enable() of the process returned Ok and
                    \*           no cleanup() of it has returned since]
    applyLog,       \* the apply() calls the Driver issued, in order
    cleanupLog,     \* [Procs -> the steps its current/last cleanup() issued]
    cleanupCalls,   \* [Procs -> number of cleanup() calls made]
    ruleLoads,      \* loads of the dummynet rules by enable() since the last
                    \* cleanup() call began
    pipeBefore,     \* whether the pipe existed when the session's enable() came
                    \* to configure it: "unset" before that, "present", "absent"
    fileHandle,     \* TrafficShaper.file_handle of the session: "none", "open"
    reportFile,     \* the lines of the report file
    sinkFailed,     \* a write to the report output has failed
    cliRuns         \* commands the cli process has run

backend == <<pfRefs, pfEnabled, pipeExists, pipeCfg, policy>>
driver == <<pos, epoch, sleepDeadline, earlyWakes>>
hist == <<applyLog, cleanupLog, cleanupCalls, ruleLoads, pipeBefore>>
report == <<fileHandle, reportFile, sinkFailed>>
cli == <<cliArgs, cliConfig, cliRuns>>
vars == <<events, config, cliArgs, cliConfig, now, pc, backend, driver, res, ret, cleanupRes, held, hist, report, cliRuns>>

\* The TrafficConfig of the session's shaper (Simulation::new).
TsConfig == ConfigInto(config)

\* The TrafficConfig of the shaper a process calls enable() on.
ShaperConfig(p) == IF p = "sim" THEN TsConfig ELSE cliConfig.value[1]

InitWith(timelines, configs) ==
    /\ events \in timelines
    /\ config \in configs
    /\ cliArgs = StopArgs
    /\ cliConfig = NoConfig
    /\ now = 0
    /\ pc = [p \in Procs |-> IF p = "sim" THEN "enable_pf" ELSE "idle"]
    /\ pfRefs = 0
    /\ pfEnabled = FALSE
    /\ pipeExists = FALSE
    /\ pipeCfg = <<>>
    /\ policy = "base"
    /\ pos = 0
    /\ epoch = 0
    /\ sleepDeadline = 0
    /\ earlyWakes = 0
    /\ res = None
    /\ ret = None
    /\ cleanupRes = None
    /\ held = [p \in Procs |-> FALSE]
    /\ applyLog = <<>>
    /\ cleanupLog = [p \in Procs |-> <<>>]
    /\ cleanupCalls = [p \in Procs |-> 0]
    /\ ruleLoads = 0
    /\ pipeBefore = "unset"
    /\ fileHandle = "none"
    /\ reportFile = <<>>
    /\ sinkFailed = FALSE
    /\ cliRuns = 0

\* A session of a manifest with the default configuration.
Init == InitWith(PlainTimelines, {DefaultConfig})

Goto(p, l) == pc' = [pc EXCEPT ![p] = l]

\* Mutant of Propagates: errors are dropped and the caller goes on.
PropagatesNever(r) == FALSE

\* The `?` operator: an Err result leaves the function at once.
Propagates(r) == r # OK

\* A command's result, from the backend's answer.
Result(ok, cmd, k) == IF ok THEN OK ELSE Err(cmd, k)

\* ------------------------------------------------- TrafficShaper::enable
\* Mutant of EnableReturn: start_inner goes on to the Driver whatever
\* enable() returned.
EnableReturnGoesOn(p, r) ==
    /\ held' = [held EXCEPT ![p] = IF r = OK THEN TRUE ELSE @]
    /\ res' = res
    /\ Goto(p, IF p = "sim" THEN "epoch" ELSE "idle")

\* enable() returns r to its caller: start_inner (which propagates an Err
\* and otherwise goes on to take the epoch) or the cli `start` command
\* (whose process exits either way).
EnableReturn(p, r) ==
    /\ held' = [held EXCEPT ![p] = IF r = OK THEN TRUE ELSE @]
    /\ IF p = "sim"
       THEN IF Propagates(r)
            THEN res' = r /\ Goto(p, "cleanup_flush")
            ELSE res' = res /\ Goto(p, "epoch")
       ELSE res' = res /\ Goto(p, "idle")

\* `command()?;` inside enable(): leave with the error, or go on to next.
EnableTry(p, r, next) ==
    IF Propagates(r)
    THEN EnableReturn(p, r)
    ELSE Goto(p, next) /\ UNCHANGED <<res, held>>

\* Step 1: pfctl -E, which takes one more reference on pf.
EnablePf(p) ==
    /\ pc[p] = "enable_pf"
    /\ \E ok \in BOOLEAN :
        /\ pfRefs' = IF ok THEN pfRefs + 1 ELSE pfRefs
        /\ pfEnabled' = (ok \/ pfEnabled)
        /\ EnableTry(p, Result(ok, "pfctl_E", 0), "enable_pipe")
    /\ UNCHANGED <<events, config, report, now, pipeExists, pipeCfg, policy, driver, ret, cleanupRes, hist, cli>>

\* Step 2: dnctl pipe 1 config ..., which creates or overwrites the pipe.
EnablePipe(p) ==
    /\ pc[p] = "enable_pipe"
    /\ \E ok \in BOOLEAN :
        /\ pipeExists' = (ok \/ pipeExists)
        /\ pipeCfg' = IF ok
                      THEN Some(ConfigurePipe(ShaperConfig(p).max_bandwidth,
                                              ShaperConfig(p).latency,
                                              Ratio(ShaperConfig(p).packet_loss)))
                      ELSE pipeCfg
        /\ EnableTry(p, Result(ok, "dnctl_config", 0), "enable_query")
    /\ pipeBefore' = IF p # "sim" THEN pipeBefore
                     ELSE IF pipeExists THEN "present" ELSE "absent"
    /\ UNCHANGED <<events, config, report, now, pfRefs, pfEnabled, policy, driver, ret, cleanupRes,
                   applyLog, cleanupLog, cleanupCalls, ruleLoads, cli>>

\* Step 4, the last of a successful enable(): for Output::File the file is
\* created or truncated and its handle kept; a failure to open it is logged
\* and leaves no handle. Only the session's manifest can name an output.
OpenReport(p) ==
    IF p # "sim"
    THEN UNCHANGED <<fileHandle, reportFile>>
    ELSE IF ShaperConfig(p).report_output = "File"
         THEN \E opened \in BOOLEAN :
                /\ fileHandle' = IF opened THEN "open" ELSE "none"
                /\ reportFile' = IF opened THEN <<>> ELSE reportFile
         ELSE fileHandle' = "none" /\ UNCHANGED reportFile

\* Mutant of PipeListed: the query never finds the pipe.
PipeListedNever == FALSE

\* DnctlCommands::pipe_exists: `dnctl show` lists "pipe 1 ".
PipeListed == pipeExists

\* Step 3: the rules are loaded only if pipe_exists() answers false.
EnableQuery(p) ==
    /\ pc[p] = "enable_query"
    /\ \E ok \in BOOLEAN :
        LET r == Result(ok, "dnctl_show", 0) IN
        IF Propagates(r) THEN EnableReturn(p, r) /\ UNCHANGED <<fileHandle, reportFile>>
        ELSE IF ~PipeListed
             THEN Goto(p, "enable_anchor") /\ UNCHANGED <<res, held, fileHandle, reportFile>>
             ELSE EnableReturn(p, OK) /\ OpenReport(p)
    /\ UNCHANGED <<events, config, sinkFailed, now, backend, driver, ret, cleanupRes, hist, cli>>

\* generate_anchor_rules (reads /etc/pf.conf) and load_rules of the anchor.
EnableAnchor(p) ==
    /\ pc[p] = "enable_anchor"
    /\ \E ok \in BOOLEAN :
        /\ policy' = IF ok THEN "anchor" ELSE policy
        /\ EnableTry(p, Result(ok, "pfctl_f_anchor", 0), "enable_rules")
    /\ UNCHANGED <<events, config, report, now, pfRefs, pfEnabled, pipeExists, pipeCfg, driver, ret, cleanupRes, hist, cli>>

\* generate_pf_rules and load_rules of the dummynet rules; Ok(()) follows.
EnableRules(p) ==
    /\ pc[p] = "enable_rules"
    /\ \E ok \in BOOLEAN :
        /\ policy' = IF ok THEN "rules" ELSE policy
        /\ ruleLoads' = IF ok THEN ruleLoads + 1 ELSE ruleLoads
        /\ EnableReturn(p, Result(ok, "pfctl_f_rules", 0))
        /\ IF ok THEN OpenReport(p) ELSE UNCHANGED <<fileHandle, reportFile>>
    /\ UNCHANGED <<events, config, sinkFailed, now, pfRefs, pfEnabled, pipeExists, pipeCfg, driver, ret, cleanupRes,
                   applyLog, cleanupLog, cleanupCalls, pipeBefore, cli>>

\* ------------------------------------------------ TrafficShaper::cleanup
\* Mutant of StartResult: a cleanup() error replaces the session's result.
StartResultCleanup(r, c) == IF c # OK THEN c ELSE r

\* Simulation::start returns start_inner's result; cleanup's is only logged.
StartResult(r, c) == r

\* cleanup() returns r to its caller: Simulation::start, which then returns,
\* or the cli `stop` command, whose process exits.
CleanupReturn(p, r) ==
    /\ held' = [held EXCEPT ![p] = FALSE]
    /\ IF p = "sim"
       THEN cleanupRes' = r /\ ret' = StartResult(res, r) /\ Goto(p, "returned")
       ELSE UNCHANGED <<cleanupRes, ret>> /\ Goto(p, "idle")

CleanupTry(p, r, next) ==
    IF Propagates(r)
    THEN CleanupReturn(p, r)
    ELSE Goto(p, next) /\ UNCHANGED <<cleanupRes, held, ret>>

\* dnctl -f flush: removes every pipe.
CleanupFlush(p) ==
    /\ pc[p] = "cleanup_flush"
    /\ cleanupCalls' = [cleanupCalls EXCEPT ![p] = @ + 1]
    /\ cleanupLog' = [cleanupLog EXCEPT ![p] = <<"flush">>]
    /\ ruleLoads' = 0
    /\ \E ok \in BOOLEAN :
        /\ pipeExists' = IF ok THEN FALSE ELSE pipeExists
        /\ pipeCfg' = IF ok THEN <<>> ELSE pipeCfg
        /\ CleanupTry(p, Result(ok, "dnctl_flush", 0), "cleanup_restore")
    /\ UNCHANGED <<events, config, report, now, pfRefs, pfEnabled, policy, driver, res, applyLog, pipeBefore, cli>>

\* pfctl -f /etc/pf.conf: reloads the host's base rules.
CleanupRestore(p) ==
    /\ pc[p] = "cleanup_restore"
    /\ cleanupLog' = [cleanupLog EXCEPT ![p] = Append(@, "restore")]
    /\ \E ok \in BOOLEAN :
        /\ policy' = IF ok THEN "base" ELSE policy
        /\ CleanupTry(p, Result(ok, "pfctl_f_base", 0), "cleanup_refs")
    /\ UNCHANGED <<events, config, report, now, pfRefs, pfEnabled, pipeExists, pipeCfg, driver, res, applyLog, cleanupCalls, ruleLoads, pipeBefore, cli>>

\* PfctlCommands::disable, first half: the reference count parsed from
\* `pfctl -s References`; 0 when no line of the output yields a number.
RefCount(out) == IF out = "count" THEN pfRefs ELSE 0

\* "Only disable if this is the last reference".
LastReference(n) == n <= 1

CleanupRefs(p) ==
    /\ pc[p] = "cleanup_refs"
    /\ cleanupLog' = [cleanupLog EXCEPT ![p] = Append(@, "disable")]
    /\ \E out \in {"count", "noline", "error"} :
        IF out = "error"
        THEN CleanupTry(p, Err("pfctl_s", 0), "cleanup_refs")
        ELSE IF LastReference(RefCount(out))
             THEN Goto(p, "cleanup_disable") /\ UNCHANGED <<cleanupRes, held, ret>>
             ELSE CleanupReturn(p, OK)
    /\ UNCHANGED <<events, config, report, now, backend, driver, res, applyLog, cleanupCalls, ruleLoads, pipeBefore, cli>>

\* PfctlCommands::disable, second half: pfctl -d turns pf off for everyone.
CleanupDisable(p) ==
    /\ pc[p] = "cleanup_disable"
    /\ \E ok \in BOOLEAN :
        /\ pfEnabled' = IF ok THEN FALSE ELSE pfEnabled
        /\ pfRefs' = IF ok THEN 0 ELSE pfRefs
        /\ CleanupReturn(p, Result(ok, "pfctl_d", 0))
    /\ UNCHANGED <<events, config, report, now, pipeExists, pipeCfg, policy, driver, res, hist, cli>>

\* ----------------------------------------- Simulation::start_inner, Driver
\* Mutant of StartInnerEpoch: the Driver is given the epoch that
\* Simulation::new received.
StartInnerKeepsEpoch ==
    /\ pc["sim"] = "epoch"
    /\ epoch' = epoch
    /\ pos' = 0
    /\ sleepDeadline' = now
    /\ Goto("sim", "poll")
    /\ UNCHANGED <<events, config, report, now, backend, earlyWakes, res, ret, cleanupRes, held, hist, cli>>

\* start_inner after enable() returned Ok: the epoch is taken and the Driver
\* is built (pos 0, a Sleep of zero length).
StartInnerEpoch ==
    /\ pc["sim"] = "epoch"
    /\ epoch' = now
    /\ pos' = 0
    /\ sleepDeadline' = now
    /\ Goto("sim", "poll")
    /\ UNCHANGED <<events, config, report, now, backend, earlyWakes, res, ret, cleanupRes, held, hist, cli>>

\* Mutant of IsDue: the comparison is off by one tick.
IsDueEarly(t, ep, offset) == t + 1 >= ep + offset

\* `now >= expiry`, with expiry = epoch + event.time.
IsDue(t, ep, offset) == t >= ep + offset

\* Mutant of Advance: pos is not moved past the event applied.
AdvanceStuck(p) == p

\* `*this.pos += 1`.
Advance(p) == p + 1

\* Mutant of Finished: the list counts as done one event early.
FinishedEarly(p, n) == p + 1 >= n

\* `*this.pos == this.events.len()`.
Finished(p, n) == p = n

\* The Driver leaves poll with Poll::Ready(r): start_inner returns r and
\* Simulation::start goes on to cleanup().
DriverReady(r) ==
    /\ res' = r
    /\ Goto("sim", "cleanup_flush")

\* Lines 108-117 of poll: Ready(Ok) at the end of the list, otherwise the
\* Sleep is reset to the deadline of the event now at pos and poll is Pending.
PollTail(p) ==
    /\ pos' = p
    /\ IF Finished(p, Len(events))
       THEN DriverReady(OK) /\ UNCHANGED sleepDeadline
       ELSE /\ sleepDeadline' = epoch + events[p + 1].time
            /\ Goto("sim", "pending")
            /\ UNCHANGED res

\* TrafficShaper::apply once configure_pipe has succeeded: nothing for
\* Output::None; otherwise the record is serialised and written to stdout
\* or, if enable() got a handle, to the file. The outcome of the write is
\* dropped (`let _ =`): the whole line, a part of it, or nothing is written.
WriteOutcomes == {"all", "part", "nothing"}

WriteReport(cfg, written) ==
    IF ShaperConfig("sim").report_output = "None"
    THEN UNCHANGED <<reportFile, sinkFailed>>
    ELSE IF ShaperConfig("sim").report_output = "File" /\ fileHandle = "none"
         THEN UNCHANGED <<reportFile, sinkFailed>>
         ELSE LET event_report ==
                      EventReportNew(cfg.max_bandwidth, cfg.latency, cfg.packet_loss)
              IN  /\ sinkFailed' = (sinkFailed \/ written # "all")
                  /\ reportFile' =
                       IF ShaperConfig("sim").report_output = "File" /\ written # "nothing"
                       THEN Append(reportFile, Line(event_report, written = "all"))
                       ELSE reportFile

\* Mutant of ApplyResult: a write that fails makes apply() fail.
ApplyResultStrict(configured, written, k) ==
    Result(configured /\ written = "all", "apply", k)

\* What apply() returns for event k: the error of configure_pipe (`?`), and
\* otherwise Ok(()) whatever became of the report.
ApplyResult(configured, written, k) == Result(configured, "apply", k)

\* TrafficShaper::apply: configure_pipe with the event's parameters, then
\* the report.
Apply(cfg, ok, written) ==
    /\ pipeExists' = (ok \/ pipeExists)
    /\ pipeCfg' = IF ok
                  THEN Some(ConfigurePipe(cfg.max_bandwidth, cfg.latency, Ratio(cfg.packet_loss)))
                  ELSE pipeCfg
    /\ IF ok THEN WriteReport(cfg, written) ELSE UNCHANGED <<reportFile, sinkFailed>>

\* Driver::poll. events[pos] (0-based) is events[pos + 1] here; indexing an
\* empty list panics, which unwinds through start_inner and start.
Poll ==
    IF pos + 1 > Len(events)
    THEN /\ Goto("sim", "panicked")
         /\ UNCHANGED <<pos, sleepDeadline, res, pipeExists, pipeCfg, applyLog, reportFile, sinkFailed>>
    ELSE IF IsDue(now, epoch, events[pos + 1].time)
         THEN \E ok \in BOOLEAN, written \in WriteOutcomes :
                LET r == ApplyResult(ok, written, pos + 1) IN
                /\ applyLog' = Append(applyLog, [idx |-> pos + 1, ok |-> ok])
                /\ Apply(EventsInto(events[pos + 1]), ok, written)
                /\ IF Propagates(r)
                   THEN DriverReady(r) /\ UNCHANGED <<pos, sleepDeadline>>
                   ELSE PollTail(Advance(pos))
         ELSE PollTail(pos) /\ UNCHANGED <<pipeExists, pipeCfg, applyLog, reportFile, sinkFailed>>

\* The first poll, made by `pin!(d).await`.
FirstPoll ==
    /\ pc["sim"] = "poll"
    /\ Poll
    /\ UNCHANGED <<events, config, fileHandle, now, pfRefs, pfEnabled, policy, epoch, earlyWakes, ret,
                   cleanupRes, held, cleanupLog, cleanupCalls, ruleLoads, pipeBefore, cli>>

\* The Sleep fires at or after its deadline and the task is polled again.
TimerWake ==
    /\ pc["sim"] = "pending"
    /\ now >= sleepDeadline
    /\ Poll
    /\ UNCHANGED <<events, config, fileHandle, now, pfRefs, pfEnabled, policy, epoch, earlyWakes, ret,
                   cleanupRes, held, cleanupLog, cleanupCalls, ruleLoads, pipeBefore, cli>>

\* The task is polled before the Sleep's deadline (a spurious wake-up).
EarlyWake ==
    /\ pc["sim"] = "pending"
    /\ now < sleepDeadline
    /\ earlyWakes < MaxEarlyWakes
    /\ earlyWakes' = earlyWakes + 1
    /\ Poll
    /\ UNCHANGED <<events, config, fileHandle, now, pfRefs, pfEnabled, policy, epoch, ret,
                   cleanupRes, held, cleanupLog, cleanupCalls, ruleLoads, pipeBefore, cli>>

\* The future of Simulation::start is dropped while the Driver is Pending,
\* the only point where the task is suspended (enable(), apply() and
\* cleanup() block on their commands and never yield). Dropping runs the
\* destructors of the future's locals and nothing else: neither Simulation
\* nor TrafficShaper implements Drop, so "cancelled" is the end of the task.
Cancel ==
    /\ pc["sim"] = "pending"
    /\ Goto("sim", "cancelled")
    /\ UNCHANGED <<events, config, report, now, backend, driver, res, ret, cleanupRes, held, hist, cli>>

\* ------------------------------------------------------- the cli commands
\* `start` with arguments a: TrafficConfig::new, exit(1) on an Err, otherwise
\* TrafficShaper::new(config).enable(), after which the process exits.
StartWith(a) ==
    LET r == TrafficConfigNew(a.packet_loss, a.latency, a.max_bandwidth, a.protocol,
                              a.src_ports, a.dst_ports, a.output)
    IN  /\ pc["cli"] = "idle"
        /\ cliRuns < MaxCliRuns
        /\ cliRuns' = cliRuns + 1
        /\ cliArgs' = a
        /\ cliConfig' = r
        /\ Goto("cli", IF r.tag = "Ok" THEN "enable_pf" ELSE "idle")
        /\ cleanupLog' = [cleanupLog EXCEPT !["cli"] = <<>>]
        /\ UNCHANGED <<events, config, report, now, backend, driver, res, ret, cleanupRes,
                       held, applyLog, cleanupCalls, ruleLoads, pipeBefore>>

\* The arguments the cli passes on: clap has run validate_percentage and
\* parse_port_range on them. One setting, unlike the session's.
StartArgs == {Args(30, 200, 50, "Both", <<>>, Some(PortRange(<<80, 8080>>)), "None")}

CliStart == \E a \in StartArgs : StartWith(a)

\* The arguments a caller of the library may pass: any f32 and any ports.
AnyArgs ==
    {Args(pl, 200, 50, "Both", MapPortRange(src), MapPortRange(dst), "None") :
        pl \in PacketLosses, src \in PortPairs, dst \in PortPairs}

\* The `start` sequence run by a caller that passes its arguments as they are.
LibStart == \E a \in AnyArgs : StartWith(a)

\* `stop`: TrafficShaper::new(dummy config).cleanup(), then the process exits.
CliStop ==
    /\ pc["cli"] = "idle"
    /\ cliRuns < MaxCliRuns
    /\ cliRuns' = cliRuns + 1
    /\ cliArgs' = StopArgs
    /\ cliConfig' = TrafficConfigNew(StopArgs.packet_loss, StopArgs.latency,
                                     StopArgs.max_bandwidth, StopArgs.protocol,
                                     StopArgs.src_ports, StopArgs.dst_ports, StopArgs.output)
    /\ Goto("cli", "cleanup_flush")
    /\ cleanupLog' = [cleanupLog EXCEPT !["cli"] = <<>>]
    /\ UNCHANGED <<events, config, report, now, backend, driver, res, ret, cleanupRes, held, applyLog, cleanupCalls, ruleLoads, pipeBefore>>

\* ------------------------------------------------------------- the clock
\* Time only matters to the Driver, so the clock is stopped once the Driver
\* is done; before the epoch is taken it may advance MaxEnableTime ticks,
\* after it up to one tick past the largest offset.
Horizon ==
    IF pc["sim"] \in {"poll", "pending"} THEN epoch + MaxOffset + 1
    ELSE IF pc["sim"] \in {"enable_pf", "enable_pipe", "enable_query", "enable_anchor",
                           "enable_rules", "epoch"}
         THEN MaxEnableTime
         ELSE 0

Tick ==
    /\ now < Horizon
    /\ now' = now + 1
    /\ UNCHANGED <<events, config, report, pc, backend, driver, res, ret, cleanupRes, held, hist, cli>>

\* One Simulation session that is the only user of the backend. With no other
\* process flushing the pipe between steps 2 and 3 of enable(), pipe_exists()
\* always finds the pipe that step 2 configured, so the rule-loading steps
\* of enable() are not reachable here.
SimNext ==
    \/ EnablePf("sim")
    \/ EnablePipe("sim")
    \/ EnableQuery("sim")
    \/ CleanupFlush("sim")
    \/ CleanupRestore("sim")
    \/ CleanupRefs("sim")
    \/ CleanupDisable("sim")
    \/ StartInnerEpoch
    \/ FirstPoll
    \/ TimerWake
    \/ EarlyWake
    \/ Tick

Spec == Init /\ [][SimNext]_vars

\* The manifests explored for the report: any of the outputs, and events of
\* either parameters that are due at once or one second after the epoch.
ReportTimelines == {tl \in Timelines : \A i \in DOMAIN tl : tl[i].time <= 1}

ReportConfigs ==
    {Config(DefaultConfig.packet_loss, DefaultConfig.latency, DefaultConfig.bandwidth,
            DefaultConfig.protocol, <<>>, <<>>, out) :
        out \in {<<>>, Some("Stdout"), Some("File")}}

ReportInit == InitWith(ReportTimelines, ReportConfigs)

ReportSpec == ReportInit /\ [][SimNext]_vars

\* The manifests explored for the configuration: serde accepts any f32 as
\* packet_loss and any pair of u16 as a port range.
ManifestConfigs ==
    {Config(pl, DefaultConfig.latency, DefaultConfig.bandwidth, DefaultConfig.protocol,
            src, dst, <<>>) :
        pl \in PacketLosses, src \in PortPairs, dst \in PortPairs}

ManifestInit == InitWith({tl \in PlainTimelines : Len(tl) <= 1}, ManifestConfigs)

ManifestSpec == ManifestInit /\ [][SimNext]_vars

\* A caller of the library alone on the backend: sequences of start and stop.
LibNext ==
    \/ LibStart
    \/ EnablePf("cli")
    \/ EnablePipe("cli")
    \/ EnableQuery("cli")
    \/ CliStop
    \/ CleanupFlush("cli")
    \/ CleanupRestore("cli")
    \/ CleanupRefs("cli")
    \/ CleanupDisable("cli")

LibSpec == InitWith({<<>>}, {DefaultConfig}) /\ [][LibNext]_vars

\* The session when its task may be cancelled.
CancelNext == SimNext \/ Cancel

CancelSpec == Init /\ [][CancelNext]_vars

\* The session next to the cli's `start` and `stop` commands, run by other
\* processes against the same backend, every command interleaved freely.
Next ==
    \/ \E p \in Procs : EnablePf(p)
    \/ \E p \in Procs : EnablePipe(p)
    \/ \E p \in Procs : EnableQuery(p)
    \/ \E p \in Procs : EnableAnchor(p)
    \/ \E p \in Procs : EnableRules(p)
    \/ \E p \in Procs : CleanupFlush(p)
    \/ \E p \in Procs : CleanupRestore(p)
    \/ \E p \in Procs : CleanupRefs(p)
    \/ \E p \in Procs : CleanupDisable(p)
    \/ StartInnerEpoch
    \/ FirstPoll
    \/ TimerWake
    \/ EarlyWake
    \/ CliStart
    \/ CliStop
    \/ Tick

\* The timelines explored next to the cli commands: at most one event.
SharedInit == Init /\ Len(events) <= 1

SharedSpec == SharedInit /\ [][Next]_vars

\* The Sleep fires once its deadline has passed, the runtime polls a woken
\* task, and time advances.
FairSpec == Spec /\ WF_vars(FirstPoll) /\ WF_vars(TimerWake) /\ WF_vars(Tick)

\* ================================================================ claims
EnablePcs == {"enable_pf", "enable_pipe", "enable_query", "enable_anchor", "enable_rules"}
CleanupPcs == {"cleanup_flush", "cleanup_restore", "cleanup_refs", "cleanup_disable"}

\* The task running the session has ended: start returned, or it panicked.
SessionOver == pc["sim"] \in {"returned", "panicked"}

\* A step of the Driver's poll (the clock stands still during it).
PollStep == pc["sim"] \in {"poll", "pending"} /\ now' = now /\ pc["cli"]' = pc["cli"]

FailedApplies == {i \in DOMAIN applyLog : ~applyLog[i].ok}

\* C1: every session that is not cancelled invokes cleanup() exactly once,
\* after enable and the scheduler have finished, whatever their outcome:
\* never more than once, never before start_inner has a result, and once
\* the session is over cleanup() has been called.
C1_CleanupExactlyOnce ==
    /\ cleanupCalls["sim"] <= 1
    /\ (cleanupCalls["sim"] = 1 => res # None)
    /\ (SessionOver => cleanupCalls["sim"] = 1)

\* C2: each of the three steps of cleanup() (flush, restore, disable) is
\* issued on every cleanup() call, whichever of them fail: a cleanup() call
\* that has returned has issued all three.
C2_AllStepsAttempted ==
    \A p \in Procs :
        (cleanupLog[p] # <<>> /\ pc[p] \notin CleanupPcs)
            => cleanupLog[p] = <<"flush", "restore", "disable">>

\* C3: the apply calls the scheduler has issued are a prefix of the timeline
\* in list order (the i-th call is for event i: none skipped, none repeated,
\* none out of order), and pos counts the events applied.
C3_AppliedIsPrefix ==
    /\ Len(applyLog) <= Len(events)
    /\ \A i \in DOMAIN applyLog : applyLog[i].idx = i
    /\ pos = Cardinality({i \in DOMAIN applyLog : applyLog[i].ok})

C3_Witness ==
    /\ Len(applyLog) = 2
    /\ applyLog[2].ok
    /\ events[1].time < events[2].time
    /\ now > epoch + events[2].time

Sorted(tl) == \A i, j \in DOMAIN tl : i <= j => tl[i].time <= tl[j].time

\* C4: for every sorted timeline whose apply calls all succeed, a scheduler
\* that has been started eventually completes successfully (with pos at the
\* length of the timeline), given that time advances and the Sleep fires.
C4_EventuallyCompletes ==
    (pc["sim"] = "poll" /\ Sorted(events))
        ~> ((res = OK /\ pos = Len(events)) \/ FailedApplies # {})

\* C5: at one wake-up every event that is due is applied before the
\* scheduler suspends again: no poll ends Pending (with the Sleep armed)
\* while the event at the current position is due.
C5_NoWaitWhileDue ==
    [][(PollStep /\ pc["sim"]' = "pending")
          => now < epoch + events[pos' + 1].time]_vars

\* C6: no event is applied before its deadline: every apply call is issued
\* at a time >= epoch + the event's offset; and a poll made while the Sleep's
\* deadline is still ahead applies nothing and leaves the scheduler Pending
\* with the Sleep armed for the same deadline.
C6_NeverEarly ==
    [][/\ applyLog' # applyLog
            => now >= epoch + events[applyLog'[Len(applyLog')].idx].time
       /\ (PollStep /\ pc["sim"] = "pending" /\ now < sleepDeadline)
            => /\ applyLog' = applyLog
               /\ pos' = pos
               /\ sleepDeadline' = sleepDeadline
               /\ pc["sim"]' = "pending"]_vars

C6_Witness ==
    /\ earlyWakes > 0
    /\ Len(applyLog) = 2
    /\ applyLog[2].ok
    /\ events[2].time = MaxOffset
    /\ now = epoch + MaxOffset

\* C7: if apply fails on event k the scheduler ends at once with that error:
\* the failed call is the last apply issued, pos still points at event k,
\* the scheduler is not suspended again, and its result is that error.
C7_FailureStops ==
    \A i \in FailedApplies :
        /\ i = Len(applyLog)
        /\ pos = applyLog[i].idx - 1
        /\ pc["sim"] \notin {"poll", "pending"}
        /\ res = Err("apply", applyLog[i].idx)

C7_Witness ==
    /\ Len(events) = 2
    /\ FailedApplies = {2}
    /\ pc["sim"] = "returned"

EnableErrors == {"pfctl_E", "dnctl_config", "dnctl_show", "pfctl_f_anchor", "pfctl_f_rules"}

\* C8: what Simulation::start returns is the outcome of enable and the
\* scheduler alone: the error of the enable command or of the apply call
\* that failed, success if none failed; it is never an error of cleanup().
C8_ReturnsPrimary ==
    ret # None =>
        /\ ret[1] \in {"ok", "apply"} \cup EnableErrors
        /\ ret = OK => FailedApplies = {}
        /\ ret[1] \in EnableErrors => applyLog = <<>>
        /\ ret[1] = "apply" => FailedApplies # {}
        /\ \A i \in FailedApplies : ret = Err("apply", applyLog[i].idx)

C8_Witness ==
    /\ ret = Err("apply", 2)
    /\ cleanupRes \notin {OK, None}

\* C9: a session returns success only if every event of the timeline has
\* been applied exactly once, in order, with pos at the end of the list; a
\* session that returns an error has a failed enable or a failed last apply.
C9_SuccessMeansAllApplied ==
    /\ ret = OK =>
        /\ pos = Len(events)
        /\ Len(applyLog) = Len(events)
        /\ \A i \in DOMAIN applyLog : applyLog[i] = [idx |-> i, ok |-> TRUE]
    /\ ret \notin {OK, None} =>
        \/ applyLog = <<>> /\ ret[1] \in EnableErrors
        \/ applyLog # <<>> /\ ~applyLog[Len(applyLog)].ok

C9_Witness ==
    /\ ret = OK
    /\ Len(events) = 2
    /\ earlyWakes > 0

\* C10: when two sessions have each enabled successfully and one of them
\* runs cleanup() while the other is still active, the disable step of that
\* cleanup leaves the reference count above zero and does not go on to
\* deactivate pf.
C10_OtherSessionKeepsBackend ==
    [][\A p \in Procs :
          (/\ pc[p] = "cleanup_refs"
           /\ pc[p]' # pc[p]
           /\ held[p]
           /\ \E q \in Procs \ {p} : held[q] /\ pc[q] \notin CleanupPcs)
          => (pfRefs' > 0 /\ pc[p]' # "cleanup_disable")]_vars

\* C11: over any sequence of enable() calls with no cleanup() call between
\* them, the dummynet rules are installed at most once: an enable() that
\* finds pf already enabled and the pipe configured succeeds without
\* loading any rule.
C11_RulesInstalledOnce == ruleLoads <= 1

C11_Witness ==
    /\ held["sim"]
    /\ held["cli"]
    /\ \A p \in Procs : cleanupCalls[p] = 0
    /\ policy = "base"

\* C12: enable() installs the rules exactly when the pipe did not exist
\* before enable() configured it at step 2: a successful enable() of the
\* session returns from the rule-loading step if the pipe was absent then,
\* and from the query step, with nothing installed, if it was present.
C12_RulesIffPipeWasAbsent ==
    [][(pc["sim"] \in EnablePcs /\ pc["sim"]' = "epoch")
          => ((pc["sim"] = "enable_rules") <=> (pipeBefore = "absent"))]_vars

\* C13: if the task running the session is cancelled at a suspension point
\* after enable() has started, cleanup() is still executed: a session whose
\* future has been dropped has had its cleanup() call.
C13_CancelStillCleansUp == pc["sim"] = "cancelled" => cleanupCalls["sim"] = 1

\* The record a report line must hold for event e.
RecordOf(e) ==
    [whole |-> TRUE, bandwidth |-> e.bandwidth, latency |-> e.latency,
     packet_loss |-> e.packet_loss]

\* The events whose apply call succeeded, in the order of the calls.
AppliedEvents ==
    LET okCalls == SelectSeq(applyLog, LAMBDA c : c.ok)
    IN  [i \in 1..Len(okCalls) |-> events[okCalls[i].idx]]

FileIsOpen == config.report_output = Some("File") /\ fileHandle = "open"

InRange(pl) == 0 <= pl /\ pl <= 100
Ordered(ports) == ports = <<>> \/ ports[1][1] <= ports[1][2]
ValidManifest(c) == InRange(c.packet_loss) /\ Ordered(c.src_ports) /\ Ordered(c.dst_ports)

\* C15: a session whose manifest configuration is invalid (packet_loss
\* outside [0, 100], or a port pair with start > end) does not start: it
\* never issues a backend command, so it stays before the first step of
\* enable() with the backend untouched.
C15_InvalidManifestNeverStarts ==
    ~ValidManifest(config) =>
        /\ pc["sim"] = "enable_pf"
        /\ pfRefs = 0
        /\ ~pipeExists

OrderedRange(range) == range = <<>> \/ range[1].start <= range[1].end

\* C16: TrafficConfig::new returns InvalidPacketLoss exactly when
\* packet_loss is outside [0, 100] (0 and 100 are accepted), InvalidPortRange
\* exactly when (packet_loss being valid) a port range has start > end, and
\* otherwise a configuration that holds the arguments unchanged.
C16_NewValidatesInputs ==
    cliConfig # NoConfig =>
        /\ (cliConfig.tag = "InvalidPacketLoss") <=> ~InRange(cliArgs.packet_loss)
        /\ (cliConfig.tag = "InvalidPortRange") <=>
                /\ InRange(cliArgs.packet_loss)
                /\ ~(OrderedRange(cliArgs.src_ports) /\ OrderedRange(cliArgs.dst_ports))
        /\ (cliConfig.tag = "Ok") =>
                cliConfig.value =
                    <<[packet_loss |-> cliArgs.packet_loss,
                       latency |-> cliArgs.latency,
                       max_bandwidth |-> cliArgs.max_bandwidth,
                       protocol |-> cliArgs.protocol,
                       src_ports |-> cliArgs.src_ports,
                       dst_ports |-> cliArgs.dst_ports,
                       report_output |-> cliArgs.output]>>

\* Another process than p has enabled successfully and has not begun its
\* cleanup(): it holds a reference on pf and relies on it.
OtherHolder(p) == \E q \in Procs \ {p} : held[q] /\ pc[q] \notin CleanupPcs

\* C17: under every interleaving, and also when the caller of cleanup()
\* never held a reference (its enable() failed, or `stop` was run without
\* a `start`), the pfctl -d of a cleanup() never turns pf off while
\* another session holds a reference.
C17_NoDeactivationUnderHolder ==
    [][\A p \in Procs :
          (pc[p] = "cleanup_disable" /\ pc[p]' # pc[p] /\ OtherHolder(p))
              => pfEnabled']_vars

\* C18: the references on pf are balanced: the pfctl -E of an enable()
\* raises the count by one, and the cleanup() that matches a successful
\* enable() lowers it by one: the step on which the session's cleanup()
\* returns Ok, from the reference query or from pfctl -d, leaves the count
\* one below what it was.
C18_ReferencesBalanced ==
    [][/\ \A p \in Procs :
            (pc[p] = "enable_pf" /\ pc[p]' = "enable_pipe") => pfRefs' = pfRefs + 1
       /\ (/\ held["sim"]
           /\ pc["sim"] \in {"cleanup_refs", "cleanup_disable"}
           /\ pc["sim"]' = "returned"
           /\ cleanupRes' = OK)
            => pfRefs' = pfRefs - 1]_vars

\* C19: while the session is active (it has enabled and not begun its
\* cleanup) and its pipe is configured, no step of another process's
\* enable() disturbs it: the parameters of the pipe and the rules loaded are
\* the same after the step as before.
C19_EnableLeavesActiveSessionAlone ==
    [][(/\ held["sim"]
        /\ pc["sim"] \notin CleanupPcs
        /\ pipeExists
        /\ pc["cli"] \in EnablePcs
        /\ pc["cli"]' # pc["cli"])
          => (pipeCfg' = pipeCfg /\ policy' = policy)]_vars

\* C20: for an empty timeline the scheduler completes successfully on its
\* first poll: once enable() has succeeded and the first poll has been made,
\* the scheduler's result is Ok, no apply has been called, and the task is
\* neither suspended nor ended by a panic.
C20_EmptyTimelineCompletes ==
    (/\ events = <<>>
     /\ pc["sim"] \notin (EnablePcs \cup {"epoch", "poll"})
     /\ res[1] \notin EnableErrors)
        => /\ res = OK
           /\ applyLog = <<>>
           /\ pc["sim"] \notin {"pending", "panicked"}

\* C21: within a session apply is called only while its shaper is Active:
\* every apply call of the scheduler is issued after the session's enable()
\* returned Ok and before its cleanup() has started, and a session whose
\* enable() failed has issued no apply at all.
C21_ApplyOnlyWhileActive ==
    [][/\ applyLog' # applyLog
            => /\ held["sim"]
               /\ cleanupCalls["sim"] = 0
               /\ pc["sim"] \notin (EnablePcs \cup CleanupPcs)
       /\ res'[1] \in EnableErrors => applyLog' = <<>>]_vars

C21_Witness ==
    /\ Len(applyLog) = 2
    /\ applyLog[2].ok
    /\ cleanupCalls["sim"] = 1
    /\ cleanupLog["sim"] = <<"flush", "restore", "disable">>
    /\ pc["sim"] = "returned"

\* The session is configured for a report file that enable() could not open.
ReportIsOff ==
    /\ config.report_output = Some("File")
    /\ fileHandle = "none"
    /\ pc["sim"] \notin EnablePcs

\* C22: a failure of the report output is never fatal. enable() fails only
\* with the error of one of its backend commands, whether or not the report
\* file could be opened, and with the file not opened nothing is reported;
\* the apply on which a write fails succeeds all the same: the scheduler
\* moves on to the next event and its result is not an error; and an error
\* of the session is always that of a backend command that failed.
C22_SinkFailureNeverFatal ==
    [][/\ (pc["sim"] \in EnablePcs /\ pc["sim"]' = "cleanup_flush")
            => res'[1] \in EnableErrors
       /\ (ReportIsOff /\ applyLog' # applyLog)
            => (reportFile' = reportFile /\ sinkFailed' = sinkFailed)
       /\ (sinkFailed' /\ ~sinkFailed)
            => /\ pos' = pos + 1
               /\ res' \in {None, OK}
               /\ pc["sim"]' # "panicked"
       /\ res'[1] = "apply" => ~applyLog'[Len(applyLog')].ok]_vars

C22_Witness ==
    /\ FileIsOpen
    /\ sinkFailed
    /\ Len(reportFile) = 1
    /\ Len(applyLog) = 2
    /\ ret = OK

\* A session that could not open its report file runs to the end as well.
C22_WitnessNoFile ==
    /\ ReportIsOff
    /\ Len(applyLog) = 2
    /\ ret = OK

\* C23: the epoch the scheduler uses is captured once, after enable() has
\* returned Ok, and never changes afterwards: it is the time at which
\* start_inner goes on from enable() to the Driver, not the epoch given to
\* Simulation::new, so time spent in enable() shortens no delay; and every
\* deadline the Sleep is armed with is that epoch plus the offset of the
\* event then at pos.
C23_EpochCapturedOnce ==
    [][/\ epoch' # epoch => (pc["sim"] = "epoch" /\ held["sim"])
       /\ (pc["sim"] = "epoch" /\ pc["sim"]' # "epoch") => epoch' = now
       /\ (PollStep /\ pc["sim"]' = "pending")
            => (epoch' = epoch /\ sleepDeadline' = epoch + events[pos' + 1].time)]_vars

C23_Witness ==
    /\ epoch = MaxEnableTime
    /\ Len(events) = 1
    /\ events[1].time = MaxOffset
    /\ applyLog = <<[idx |-> 1, ok |-> TRUE]>>
    /\ now = epoch + MaxOffset
====
